---- MODULE Spec2Model ----
(***************************************************************************)
(* Model of the clip-extraction engine of video-cutter:                    *)
(*   src/src/video_processor.py  VideoProcessor (matcher, encoder driver)  *)
(*   src/src/gui.py              WorkerThread.run (batch orchestrator),    *)
(*                               toggle_pause / stop_processing (GUI)      *)
(* Threads: the worker thread (run -> cut_clip -> _run_ffmpeg_once), the   *)
(* GUI thread (pause, resume, stop, wait), the two reader threads of the   *)
(* running attempt, and the encoder child process with the wall clock.     *)
(***************************************************************************)
EXTENDS Integers, Sequences, FiniteSets, TLC

\* ---------------------------------------------------------------- bounds
NumJobs == 2
MaxPauses == 1
TickSeconds == 10
MaxVideos == 2
MaxBitrate == 20
TicksPerSecond == 1

\* ------------------------------------------------------ program constants
STALL_TIMEOUT == 10
MAX_RETRIES == 3
OpenEndedHours == 25

\* ------------------------------------------------------------------- time
\* A datetime or timedelta is a whole number of ticks, its resolution (the
\* microsecond, scaled so that a second is TicksPerSecond ticks); a float
\* number of seconds is counted in tenths of a tick.
Sec(n) == n * TicksPerSecond
FSec(n) == 10 * n * TicksPerSecond

\* timedelta(seconds=x): x rounded to a whole tick, halves to even
timedelta(x) ==
    LET q == x \div 10
        r == x % 10
    IN IF r > 5 \/ (r = 5 /\ q % 2 = 1) THEN q + 1 ELSE q

\* timedelta.total_seconds(): ticks back to a float number of seconds
total_seconds(td) == td * 10

Jobs == 1..NumJobs
NoProc == <<0, 0>>
NoVideo == [path |-> 0, start |-> -1, duration |-> -1]

\* The recordings of the batch: one of known duration, one open-ended.
Catalog == << [path |-> 1, start |-> Sec(100), duration |-> 0],
              [path |-> 2, start |-> 0, duration |-> FSec(60)] >>

\* Clip ranges <<start, end>> a job may carry: covered (and shorter than the
\* default minimum duration), spanning a boundary.
ClipChoices == { << Sec(10), Sec(15) >>, << Sec(50), Sec(70) >> }

\* ------------------------------------------------------------- the matcher
\* Faulty twin of InsertByStart: the catalog is left in the given order.
InsertAtEnd(v, s) == s \o << v >>

\* video_processor.py:201  sorted(videos, key=lambda v: v.start_time), one insertion
RECURSIVE InsertByStart(_, _)
InsertByStart(v, s) ==
    IF s = << >> THEN << v >>
    ELSE IF Head(s).start <= v.start
         THEN << Head(s) >> \o InsertByStart(v, Tail(s))
         ELSE << v >> \o s

RECURSIVE SortByStart(_)
SortByStart(videos) ==
    IF videos = << >> THEN << >>
    ELSE InsertByStart(videos[Len(videos)], SortByStart(SubSeq(videos, 1, Len(videos) - 1)))

\* Faulty twin of VideoEnd: an open-ended recording never ends at the next one.
VideoEndIgnoresNext(sorted, k) ==
    IF sorted[k].duration <= 0
    THEN sorted[k].start + Sec(OpenEndedHours * 3600)
    ELSE sorted[k].start + timedelta(sorted[k].duration)

\* video_processor.py:208-217  end of the coverage window of sorted[k]
VideoEnd(sorted, k) ==
    IF sorted[k].duration <= 0
    THEN IF k + 1 <= Len(sorted)
         THEN sorted[k + 1].start
         ELSE sorted[k].start + Sec(OpenEndedHours * 3600)
    ELSE sorted[k].start + timedelta(sorted[k].duration)

\* Faulty twin of Covers: the end of the window is excluded.
CoversEndExcluded(video_start, video_end, clip_start, clip_end) ==
    video_start <= clip_start /\ clip_end < video_end

\* video_processor.py:219  video.start_time <= clip_start and clip_end <= video_end
Covers(video_start, video_end, clip_start, clip_end) ==
    video_start <= clip_start /\ clip_end <= video_end

\* video_processor.py:206-222  the for loop, from position i on
RECURSIVE ScanFrom(_, _, _, _)
ScanFrom(sorted, i, clip_start, clip_end) ==
    IF i > Len(sorted) THEN NoVideo
    ELSE IF Covers(sorted[i].start, VideoEnd(sorted, i), clip_start, clip_end)
         THEN sorted[i]
         ELSE ScanFrom(sorted, i + 1, clip_start, clip_end)

find_video_for_clip(videos, clip_start, clip_end) ==
    ScanFrom(SortByStart(videos), 1, clip_start, clip_end)

\* ------------------------------------------------------ the offset applier
\* OffsetSettings.default()
DefaultOffset == [start_offset |-> 0, end_offset |-> 0, min_duration |-> FSec(10)]

\* video_processor.py:173  clip_start - timedelta(seconds=offset.start_offset)
AdjustedStart(clip_start, start_offset) == clip_start - timedelta(start_offset)

\* Faulty twin of AdjustedEnd: the end leniency is taken off the end.
AdjustedEndEarlier(clip_end, end_offset) == clip_end - timedelta(end_offset)

\* video_processor.py:174  clip_end + timedelta(seconds=offset.end_offset)
AdjustedEnd(clip_end, end_offset) == clip_end + timedelta(end_offset)

\* Faulty twin of EnsureMinDuration: the start is moved, not the end.
EnsureMinDurationFromEnd(adjusted_start, adjusted_end, min_duration) ==
    IF total_seconds(adjusted_end - adjusted_start) < min_duration
    THEN << adjusted_end - timedelta(min_duration), adjusted_end >>
    ELSE << adjusted_start, adjusted_end >>

\* video_processor.py:176-182  the minimum-duration step and the return
EnsureMinDuration(adjusted_start, adjusted_end, min_duration) ==
    IF total_seconds(adjusted_end - adjusted_start) < min_duration
    THEN << adjusted_start, adjusted_start + timedelta(min_duration) >>
    ELSE << adjusted_start, adjusted_end >>

apply_time_offset(clip_start, clip_end, offset) ==
    EnsureMinDuration(AdjustedStart(clip_start, offset.start_offset),
                      AdjustedEnd(clip_end, offset.end_offset),
                      offset.min_duration)

\* -------------------------------------------------- seek time and duration
\* Faulty twin of calculate_seek_time: the difference taken the wrong way round.
calculate_seek_time_reversed(video, clip_start) ==
    total_seconds(video.start - clip_start)

\* video_processor.py:224-227  (clip_start - video.start_time).total_seconds()
calculate_seek_time(video, clip_start) ==
    total_seconds(clip_start - video.start)

\* video_processor.py:251  (task.clip_end - task.clip_start).total_seconds()
requested_duration(clip_start, clip_end) ==
    total_seconds(clip_end - clip_start)

\* ------------------------------------------------------ overall progress
\* gui.py:22-95  WorkerThread defines no attribute current_task
WorkerHasCurrentTask == FALSE

\* gui.py:602-619 update_progress_display: the overall percentage shown after
\* the call (shown before it), or the AttributeError of line 612. Progress is
\* counted in hundredths.
update_progress_display(completed_clips, failed_clips, total_clips, current_progress, shown) ==
    LET completed == completed_clips + failed_clips
        overall == ((completed - 1) * 100 + current_progress) \div total_clips
    IN IF completed > 0
       THEN IF WorkerHasCurrentTask
            THEN [raised |-> FALSE,
                  overall |-> IF overall > 100 THEN 100 ELSE IF overall < 0 THEN 0 ELSE overall]
            ELSE [raised |-> TRUE, overall |-> shown]
       ELSE [raised |-> FALSE, overall |-> shown]

\* ------------------------------------------------------- the output bitrate
\* QualitySettings.high / medium / low: bitrate_ratio 1.0, 0.5, 0.3 in tenths.
QualityTenths == {10, 5, 3}

\* video_processor.py:254  int(video.bitrate * quality.bitrate_ratio); for a
\* non-negative product int() drops the fraction.
output_bitrate(bitrate, ratio_tenths) == (bitrate * ratio_tenths) \div 10

\* gui.py:457-464  ClipTask(clip_start=clip.start_time, clip_end=clip.end_time)
TaskRange(clip) == << clip[1], clip[2] >>

\* ------------------------------------------------------------------ state
VARIABLES
    clips,        \* ClipTask.clip_start / clip_end of every job
    status,       \* ClipTask.status
    error,        \* ClipTask.error
    video_info,   \* ClipTask.video_info
    launches,     \* encoder processes started for the task the loop is at
    cur,          \* the task the orchestrator loop is at (0 before the first)
    wpc,          \* position of the worker thread
    retry_count,  \* local of cut_clip
    result,       \* value returned by _run_ffmpeg_once
    running,      \* WorkerThread._running
    wpaused,      \* WorkerThread._paused
    paused,       \* VideoProcessor._paused
    stopped,      \* VideoProcessor._stopped
    process,      \* VideoProcessor._process (NoProc for None)
    alive,        \* child processes that are alive
    exitst,       \* how the latest child process ended
    idle,         \* time.time() - last_activity_time[0] of the attempt
    gpc,          \* position of the GUI thread
    npause,       \* pause requests made so far
    stopJob,      \* history: job whose live child process stop() killed
    cancelIdx,    \* history: last task past the running checks when _running was cleared
    pauseCur,     \* history: task the loop was at when the pause in force was set
    fn,           \* a call of one of the pure functions: arguments and result
    progress,     \* ClipTask.progress of every job, in hundredths
    process_finished,  \* the Event process_finished of the latest attempt
    reader        \* the read_progress thread of the latest attempt

vars == << clips, status, error, video_info, launches, cur, wpc, retry_count,
           result, running, wpaused, paused, stopped, process, alive, exitst,
           idle, gpc, npause, stopJob, cancelIdx, pauseCur, fn,
           progress, process_finished, reader >>

jobVars == << clips, status, error, video_info >>
flagVars == << running, wpaused, paused, stopped >>
guiVars == << gpc, npause, stopJob, cancelIdx >>
procVars == << process, alive, exitst, idle >>
attemptVars == << progress, process_finished, reader >>

IdleCap == STALL_TIMEOUT + TickSeconds

WorkerFinished == wpc \in {"done", "crashed"}

NoCall == [op |-> "none"]

\* No line held by the reader thread; no reader thread started yet.
NoLine == << >>
NoReader == [pc |-> "none", line |-> NoLine, job |-> 0]

\* State after WorkerThread.__init__ and start(), the tasks apart.
BatchStart ==
    /\ status = [j \in Jobs |-> "pending"]
    /\ error = [j \in Jobs |-> "none"]
    /\ video_info = [j \in Jobs |-> NoVideo]
    /\ launches = 0
    /\ cur = 0
    /\ wpc = "for"
    /\ retry_count = 0
    /\ result = "NONE"
    /\ running = TRUE
    /\ wpaused = FALSE
    /\ paused = FALSE
    /\ stopped = FALSE
    /\ process = NoProc
    /\ alive = {}
    /\ exitst = "none"
    /\ idle = 0
    /\ gpc = "idle"
    /\ npause = 0
    /\ stopJob = 0
    /\ cancelIdx = -1
    /\ pauseCur = -1
    /\ progress = [j \in Jobs |-> 0]
    /\ process_finished = FALSE
    /\ reader = NoReader

Init ==
    /\ clips \in { [j \in Jobs |-> TaskRange(d[j])] : d \in [Jobs -> ClipChoices] }
    /\ BatchStart
    /\ fn = NoCall


\* ------------------------------------------------------- the child process
Latest == IF cur = 0 THEN NoProc ELSE << cur, launches >>

\* Popen.kill(): ends the process if it is alive, no effect on one that exited.
KillAlive(p) == alive \ {p}
KillExit(p) == IF p \in alive /\ p = Latest THEN "killed" ELSE exitst

\* --------------------------- conditions of the code, each with a faulty twin
\* video_processor.py:471  while retry_count <= self.MAX_RETRIES
RetryLoopCondition(rc) == rc <= MAX_RETRIES

\* Faulty twin of WillRetry: an off-by-one bound on the retries.
WillRetryOffByOne(rc) == rc < MAX_RETRIES

\* video_processor.py:491  if retry_count <= self.MAX_RETRIES (after += 1)
WillRetry(rc) == rc <= MAX_RETRIES

\* Faulty twin of StallDetected: the threshold taken in milliseconds.
StallDetectedMillis(t) == t > STALL_TIMEOUT * 1000

\* video_processor.py:388  if time_since_activity > self.STALL_TIMEOUT
StallDetected(t) == t > STALL_TIMEOUT

\* Faulty twin of IsRetryable: every failed attempt is retried.
IsRetryableAnyFailure(r) == r # "OK"

\* video_processor.py:489  if error == "STALLED"
IsRetryable(r) == r = "STALLED"

\* Faulty twin of StallKill: the stalled process is abandoned, not killed.
StallNoKill(p) == alive

\* video_processor.py:391  self._process.kill() of the stall branch
StallKill(p) == KillAlive(p)

\* Faulty twin of NotFoundStatus: the job is marked skipped.
NotFoundStatusSkipped == "skipped"

\* gui.py:75  task.status of a job for which no recording was found
NotFoundStatus == "failed"

\* Faulty twin of KeepGoing: the running flag is ignored.
KeepGoingAlways(flag) == TRUE

\* gui.py:49, 57  if not self._running: break
KeepGoing(flag) == flag

\* Faulty twin of NotFoundError: the job is given no error description.
NotFoundErrorMissing == "none"

\* gui.py:75  task.error (the message says: source video not found)
NotFoundError == "source video not found"

\* Faulty twin of HeldByPause: the orchestrator does not wait on the flag.
HeldByPauseNever(p, r) == FALSE

\* gui.py:53  while self._paused and self._running
HeldByPause(p, r) == p /\ r

\* ------------------------------------------- worker thread: WorkerThread.run
\* gui.py:48  for task in self.tasks
ForNext ==
    /\ wpc = "for"
    /\ IF cur < NumJobs
       THEN cur' = cur + 1 /\ launches' = 0 /\ wpc' = "chk1"
       ELSE cur' = cur /\ launches' = launches /\ wpc' = "fin"
    /\ UNCHANGED << jobVars, retry_count, result, flagVars, procVars, guiVars >>
    /\ UNCHANGED << pauseCur, fn, attemptVars >>

\* gui.py:49-50  if not self._running: break
CheckRunning1 ==
    /\ wpc = "chk1"
    /\ wpc' = IF KeepGoing(running) THEN "pausew" ELSE "fin"
    /\ UNCHANGED << jobVars, launches, cur, retry_count, result, flagVars, procVars, guiVars >>
    /\ UNCHANGED << pauseCur, fn, attemptVars >>

\* gui.py:53-55  while self._paused and self._running: sleep (spins while true)
WorkerPauseLoop ==
    /\ wpc = "pausew"
    /\ ~HeldByPause(wpaused, running)
    /\ wpc' = "chk2"
    /\ UNCHANGED << jobVars, launches, cur, retry_count, result, flagVars, procVars, guiVars >>
    /\ UNCHANGED << pauseCur, fn, attemptVars >>

\* gui.py:57-58  if not self._running: break
CheckRunning2 ==
    /\ wpc = "chk2"
    /\ wpc' = IF KeepGoing(running) THEN "match" ELSE "fin"
    /\ UNCHANGED << jobVars, launches, cur, retry_count, result, flagVars, procVars, guiVars >>
    /\ UNCHANGED << pauseCur, fn, attemptVars >>

\* gui.py:61-78 and video_processor.py:450-470: match the job, then either
\* enter cut_clip (retry_count = 0) or mark the job failed.
MatchTask ==
    /\ wpc = "match"
    /\ LET v == find_video_for_clip(Catalog, clips[cur][1], clips[cur][2])
       IN /\ video_info' = [video_info EXCEPT ![cur] = v]
          /\ IF v # NoVideo
             THEN /\ wpc' = "loop"
                  /\ retry_count' = 0
                  /\ UNCHANGED << status, error >>
             ELSE /\ wpc' = "for"
                  /\ status' = [status EXCEPT ![cur] = NotFoundStatus]
                  /\ error' = [error EXCEPT ![cur] = NotFoundError]
                  /\ UNCHANGED retry_count
    /\ UNCHANGED << clips, launches, cur, result, flagVars, procVars, guiVars >>
    /\ UNCHANGED << pauseCur, fn, attemptVars >>

\* gui.py:80-81  if self._running: self.all_completed.emit()
Finish ==
    /\ wpc = "fin"
    /\ wpc' = "done"
    /\ UNCHANGED << jobVars, launches, cur, retry_count, result, flagVars, procVars, guiVars >>
    /\ UNCHANGED << pauseCur, fn, attemptVars >>

\* --------------------------------------------- worker thread: cut_clip loop
\* One pass of the retry loop up to the launch of the encoder.
\* video_processor.py:471-476, 507-509: loop condition of cut_clip.
\* video_processor.py:247-257: mkdir is outside the try block, so an OSError
\*   leaves _run_ffmpeg_once, cut_clip and run: the worker thread ends.
\* video_processor.py:290-304, 348-374: Popen, status, reader threads started.
\* video_processor.py:421-426: a Popen error is caught, finally clears _process.
StartAttempt ==
    /\ wpc = "loop"
    /\ IF ~RetryLoopCondition(retry_count)
       THEN /\ wpc' = "for"
            /\ status' = [status EXCEPT ![cur] = "failed"]
            /\ error' = [error EXCEPT ![cur] = "Max retries exceeded"]
            /\ UNCHANGED << launches, result, procVars, process_finished, reader >>
       ELSE \E outcome \in {"mkdir_error", "popen_error", "started"} :
            IF outcome = "mkdir_error"
            THEN /\ wpc' = "crashed"
                 /\ UNCHANGED << status, error, launches, result, procVars,
                                 process_finished, reader >>
            ELSE IF outcome = "popen_error"
            THEN /\ wpc' = "classify"
                 /\ result' = "LAUNCH_ERROR"
                 /\ process' = NoProc
                 /\ UNCHANGED << status, error, launches, alive, exitst, idle,
                                 process_finished, reader >>
            ELSE /\ wpc' = "chkstop"
                 /\ launches' = launches + 1
                 /\ process' = << cur, launches + 1 >>
                 /\ alive' = alive \cup { << cur, launches + 1 >> }
                 /\ exitst' = "none"
                 /\ status' = [status EXCEPT ![cur] = "processing"]
                 /\ idle' = 0
                 /\ process_finished' = FALSE
                 /\ reader' = [pc |-> "top", line |-> NoLine, job |-> cur]
                 /\ UNCHANGED << error, result >>
    /\ UNCHANGED << clips, video_info, cur, retry_count, flagVars, guiVars >>
    /\ UNCHANGED << pauseCur, fn, progress >>

\* video_processor.py:377-381 (+ finally 424-426)
CheckStopped ==
    /\ wpc = "chkstop"
    /\ IF stopped
       THEN /\ alive' = KillAlive(process)
            /\ exitst' = "none"
            /\ result' = "STOPPED"
            /\ process' = NoProc
            /\ idle' = 0
            /\ process_finished' = TRUE
            /\ wpc' = "classify"
       ELSE /\ wpc' = "pausel"
            /\ UNCHANGED << result, procVars, process_finished >>
    /\ UNCHANGED << jobVars, launches, cur, retry_count, flagVars, guiVars >>
    /\ UNCHANGED << pauseCur, fn, progress, reader >>

\* video_processor.py:383-384  while self._paused: sleep (spins while paused)
DriverPauseLoop ==
    /\ wpc = "pausel"
    /\ ~paused
    /\ wpc' = "stallchk"
    /\ UNCHANGED << jobVars, launches, cur, retry_count, result, flagVars, procVars, guiVars >>
    /\ UNCHANGED << pauseCur, fn, attemptVars >>

\* video_processor.py:387-393 (+ finally 424-426)
CheckStall ==
    /\ wpc = "stallchk"
    /\ IF StallDetected(idle)
       THEN /\ alive' = StallKill(process)
            /\ exitst' = "none"
            /\ result' = "STALLED"
            /\ process' = NoProc
            /\ idle' = 0
            /\ process_finished' = TRUE
            /\ wpc' = "classify"
       ELSE /\ wpc' = "wait"
            /\ UNCHANGED << result, procVars, process_finished >>
    /\ UNCHANGED << jobVars, launches, cur, retry_count, flagVars, guiVars >>
    /\ UNCHANGED << pauseCur, fn, progress, reader >>

\* video_processor.py:396-402: self._process.wait(timeout=0.5) times out while
\*   the process is alive, else yields its return code and the event is set.
\* video_processor.py:404-419 (+ finally 424-426): join the readers (each
\*   join returns at its timeout at the latest), then completed with progress
\*   1.0 on code 0, else the stderr text or the exit code as the error.
WaitProcess ==
    /\ wpc = "wait"
    /\ IF process \in alive
       THEN /\ wpc' = "chkstop"
            /\ UNCHANGED << status, result, procVars, progress, process_finished >>
       ELSE /\ wpc' = "classify"
            /\ IF exitst = "zero"
               THEN /\ status' = [status EXCEPT ![cur] = "completed"]
                    /\ progress' = [progress EXCEPT ![cur] = 100]
                    /\ result' = "OK"
               ELSE /\ \E captured \in BOOLEAN :
                         result' = IF captured THEN "ERR_STDERR" ELSE "ERR_EXITCODE"
                    /\ UNCHANGED << status, progress >>
            /\ process_finished' = TRUE
            /\ process' = NoProc
            /\ exitst' = "none"
            /\ idle' = 0
            /\ UNCHANGED alive
    /\ UNCHANGED << launches, clips, error, video_info, cur, retry_count,
                    flagVars, guiVars >>
    /\ UNCHANGED << pauseCur, fn, reader >>

\* video_processor.py:480-505
Classify ==
    /\ wpc = "classify"
    /\ IF result = "OK"
       THEN /\ status' = [status EXCEPT ![cur] = "completed"]
            /\ wpc' = "for"
            /\ UNCHANGED << error, retry_count >>
       ELSE IF result = "STOPPED"
       THEN /\ status' = [status EXCEPT ![cur] = "failed"]
            /\ error' = [error EXCEPT ![cur] = "Task stopped by user"]
            /\ wpc' = "for"
            /\ UNCHANGED retry_count
       ELSE IF IsRetryable(result)
       THEN /\ retry_count' = retry_count + 1
            /\ IF WillRetry(retry_count + 1)
               THEN wpc' = "loop" /\ UNCHANGED << status, error >>
               ELSE /\ status' = [status EXCEPT ![cur] = "failed"]
                    /\ error' = [error EXCEPT ![cur] = "Process stalled after 3 retries"]
                    /\ wpc' = "for"
       ELSE /\ status' = [status EXCEPT ![cur] = "failed"]
            /\ error' = [error EXCEPT ![cur] = result]
            /\ wpc' = "for"
            /\ UNCHANGED retry_count
    /\ result' = "NONE"
    /\ UNCHANGED << launches, clips, video_info, cur, flagVars, procVars, guiVars >>
    /\ UNCHANGED << pauseCur, fn, attemptVars >>

Worker ==
    \/ ForNext \/ CheckRunning1 \/ WorkerPauseLoop \/ CheckRunning2
    \/ MatchTask \/ Finish \/ StartAttempt
    \/ CheckStopped \/ DriverPauseLoop \/ CheckStall \/ WaitProcess
    \/ Classify


\* ------------------------------------------------------------- GUI thread
\* QThread.isRunning(): true until run() has returned or raised.
IsRunning == ~WorkerFinished

\* gui.py:507-519 toggle_pause, pause branch: worker.pause(), processor.pause()
\* (gui.py:83-85, video_processor.py:511-513)
PressPause ==
    /\ gpc = "idle"
    /\ IsRunning
    /\ ~wpaused
    /\ npause < MaxPauses
    /\ wpaused' = TRUE
    /\ paused' = TRUE
    /\ npause' = npause + 1
    /\ UNCHANGED << jobVars, launches, cur, wpc, retry_count, result, running,
                    stopped, procVars, gpc, stopJob, cancelIdx >>
    /\ pauseCur' = cur
    /\ UNCHANGED << fn, attemptVars >>

\* gui.py:507-514 toggle_pause, resume branch: worker.resume(), processor.resume()
\* (gui.py:87-89, video_processor.py:515-517)
PressResume ==
    /\ gpc = "idle"
    /\ IsRunning
    /\ wpaused
    /\ wpaused' = FALSE
    /\ paused' = FALSE
    /\ UNCHANGED << jobVars, launches, cur, wpc, retry_count, result, running,
                    stopped, procVars, gpc, npause, stopJob, cancelIdx >>
    /\ pauseCur' = -1
    /\ UNCHANGED << fn, attemptVars >>

\* gui.py:521-531 stop_processing confirmed; gui.py:93 self._running = False;
\* video_processor.py:521 self._stopped = True
StopRequest ==
    /\ gpc = "idle"
    /\ IsRunning
    /\ running' = FALSE
    /\ stopped' = TRUE
    /\ cancelIdx' = IF wpc \in {"chk1", "pausew", "chk2"} THEN cur - 1 ELSE cur
    /\ gpc' = "stop2"
    /\ UNCHANGED << jobVars, launches, cur, wpc, retry_count, result, wpaused, paused,
                    procVars, npause, stopJob >>
    /\ UNCHANGED << pauseCur, fn, attemptVars >>

\* video_processor.py:522 if self._process:
StopCheckProcess ==
    /\ gpc = "stop2"
    /\ gpc' = IF process # NoProc THEN "stop3" ELSE "gwait"
    /\ UNCHANGED << jobVars, launches, cur, wpc, retry_count, result, flagVars, procVars,
                    npause, stopJob, cancelIdx >>
    /\ UNCHANGED << pauseCur, fn, attemptVars >>

\* video_processor.py:523 self._process.kill(): the attribute is read again;
\* on None the call raises AttributeError out of the handler.
StopKill ==
    /\ gpc = "stop3"
    /\ IF process = NoProc
       THEN /\ gpc' = "raised"
            /\ UNCHANGED << alive, exitst, stopJob >>
       ELSE /\ gpc' = "gwait"
            /\ alive' = KillAlive(process)
            /\ exitst' = KillExit(process)
            /\ stopJob' = IF process \in alive THEN process[1] ELSE stopJob
    /\ UNCHANGED << jobVars, launches, cur, wpc, retry_count, result, flagVars, process,
                    idle, npause, cancelIdx >>
    /\ UNCHANGED << pauseCur, fn, attemptVars >>

\* gui.py:532 self.worker.wait() returns once the worker thread has ended
WaitWorker ==
    /\ gpc = "gwait"
    /\ WorkerFinished
    /\ gpc' = "stopped"
    /\ UNCHANGED << jobVars, launches, cur, wpc, retry_count, result, flagVars, procVars,
                    npause, stopJob, cancelIdx >>
    /\ UNCHANGED << pauseCur, fn, attemptVars >>

GuiHandler == StopCheckProcess \/ StopKill \/ WaitWorker

\* ------------------------------- reader threads, child process, wall clock
Polling == wpc \in {"chkstop", "pausel", "stallchk", "wait"}

\* video_processor.py:315-323 read_progress: a line arrives on stdout
ReadProgressLine ==
    /\ Polling
    /\ process \in alive
    /\ idle' = 0
    /\ UNCHANGED << jobVars, launches, cur, wpc, retry_count, result, flagVars, process,
                    alive, exitst, guiVars >>
    /\ UNCHANGED << pauseCur, fn, attemptVars >>

\* video_processor.py:360-367 read_stderr: a line arrives on stderr
ReadStderrLine ==
    /\ Polling
    /\ process \in alive
    /\ idle' = 0
    /\ UNCHANGED << jobVars, launches, cur, wpc, retry_count, result, flagVars, process,
                    alive, exitst, guiVars >>
    /\ UNCHANGED << pauseCur, fn, attemptVars >>

\* The child process ends by itself with exit code 0 or non-zero.
ProcExit ==
    /\ Latest \in alive
    /\ \E c \in {"zero", "nonzero"} : exitst' = c
    /\ alive' = alive \ {Latest}
    /\ UNCHANGED << jobVars, launches, cur, wpc, retry_count, result, flagVars, process,
                    idle, guiVars >>
    /\ UNCHANGED << pauseCur, fn, attemptVars >>

\* video_processor.py:387 time.time() advances while the attempt is polled
Tick ==
    /\ Polling
    /\ idle < IdleCap
    /\ idle' = IF idle + TickSeconds > IdleCap THEN IdleCap ELSE idle + TickSeconds
    /\ UNCHANGED << jobVars, launches, cur, wpc, retry_count, result, flagVars, process,
                    alive, exitst, guiVars >>
    /\ UNCHANGED << pauseCur, fn, attemptVars >>

Next ==
    \/ ForNext \/ CheckRunning1 \/ WorkerPauseLoop \/ CheckRunning2
    \/ MatchTask \/ Finish \/ StartAttempt
    \/ CheckStopped \/ DriverPauseLoop \/ CheckStall \/ WaitProcess
    \/ Classify
    \/ PressPause \/ PressResume
    \/ StopRequest \/ StopCheckProcess \/ StopKill \/ WaitWorker
    \/ ReadProgressLine \/ ReadStderrLine \/ ProcExit \/ Tick

Spec == Init /\ [][Next]_vars

\* The threads are scheduled: the worker and a GUI handler that has begun.
FairSpec == Spec /\ WF_vars(Worker) /\ WF_vars(GuiHandler)

\* In addition every pause is eventually resumed.
ResumeSpec == FairSpec /\ WF_vars(PressResume)

\* In addition a child process left alone eventually exits.
LiveSpec == ResumeSpec /\ WF_vars(ProcExit)

\* ------------------------------- the progress reader thread of an attempt
\* In the batch specifications a line of the progress stream counts only as
\* activity (ReadProgressLine). The attempt specification follows the thread
\* read_progress of the latest attempt statement by statement.

\* Values of the field out_time_ms (microseconds) the encoder may emit.
OutTimes == {-1000000, 1000000, 10000000}

\* video_processor.py:331  min(1.0, out_time_us / 1000000 / duration), in
\* hundredths, for a duration other than 0 given in float seconds.
progress_fraction(out_time_us, duration) ==
    LET q == IF duration > 0
             THEN (out_time_us * TicksPerSecond) \div (1000 * duration)
             ELSE (0 - out_time_us * TicksPerSecond) \div (1000 * (0 - duration))
    IN IF q > 100 THEN 100 ELSE q

\* video_processor.py:309-312  if process_finished.is_set(): drain and leave
\* (the drain reads self._process.stdout; on None the AttributeError is caught
\* at line 343 and the thread ends as well).
ReaderTop ==
    /\ reader.pc = "top"
    /\ reader' = [reader EXCEPT !.pc = IF process_finished THEN "ended" ELSE "readline"]
    /\ UNCHANGED << jobVars, launches, cur, wpc, retry_count, result, flagVars,
                    procVars, guiVars, pauseCur, fn, progress, process_finished >>

\* video_processor.py:314-328  self._process.stdout.readline(): a line of a
\* live process (an out_time_ms field or another key), or the empty string at
\* the end of the stream; self._process is None once the attempt has returned.
ReaderReadline ==
    /\ reader.pc = "readline"
    /\ IF process = NoProc
       THEN /\ reader' = [reader EXCEPT !.pc = "ended"]
            /\ UNCHANGED idle
       ELSE IF process \in alive
       THEN /\ \E is_out_time \in BOOLEAN, t \in OutTimes :
                 reader' = IF is_out_time
                           THEN [reader EXCEPT !.pc = "parse", !.line = << t >>]
                           ELSE [reader EXCEPT !.pc = "top"]
            /\ idle' = 0
       ELSE /\ reader' = [reader EXCEPT !.pc = IF process_finished THEN "ended" ELSE "top"]
            /\ UNCHANGED idle
    /\ UNCHANGED << jobVars, launches, cur, wpc, retry_count, result, flagVars,
                    process, alive, exitst, guiVars, pauseCur, fn, progress,
                    process_finished >>

\* video_processor.py:328-341  the out_time_ms field is parsed and the progress
\* of the attempt's task assigned; a ZeroDivisionError is passed over.
ReaderParse ==
    /\ reader.pc = "parse"
    /\ LET duration == requested_duration(clips[reader.job][1], clips[reader.job][2])
       IN progress' = IF duration = 0
                      THEN progress
                      ELSE [progress EXCEPT ![reader.job] =
                                progress_fraction(reader.line[1], duration)]
    /\ reader' = [reader EXCEPT !.pc = "top", !.line = NoLine]
    /\ UNCHANGED << jobVars, launches, cur, wpc, retry_count, result, flagVars,
                    procVars, guiVars, pauseCur, fn, process_finished >>

\* Clip ranges of the jobs of the attempt specification, all of them covered
\* by the first recording: 5 s long, empty, and ending before it starts.
AttemptClipChoices ==
    { << Sec(10), Sec(15) >>, << Sec(20), Sec(20) >>, << Sec(30), Sec(20) >> }

AttemptInit ==
    /\ clips \in { [j \in Jobs |-> TaskRange(d)] : d \in AttemptClipChoices }
    /\ BatchStart
    /\ fn = NoCall

AttemptNext ==
    \/ Worker
    \/ ReaderTop \/ ReaderReadline \/ ReaderParse
    \/ ReadStderrLine \/ ProcExit \/ Tick

AttemptSpec == AttemptInit /\ [][AttemptNext]_vars

\* ------------------------------------------------- a further batch
\* gui.py:446-505 start_processing, once the start button is enabled again
\* (gui.py:535-539 after a stop, gui.py:587-591 after all_completed): new
\* ClipTask objects and a new WorkerThread on the same VideoProcessor, whose
\* _paused, _stopped and _process are left as they are.
StartProcessing ==
    /\ \/ gpc = "stopped"
       \/ (gpc = "idle" /\ wpc = "done" /\ running)
    /\ status' = [j \in Jobs |-> "pending"]
    /\ error' = [j \in Jobs |-> "none"]
    /\ video_info' = [j \in Jobs |-> NoVideo]
    /\ launches' = 0
    /\ cur' = 0
    /\ wpc' = "for"
    /\ retry_count' = 0
    /\ result' = "NONE"
    /\ running' = TRUE
    /\ wpaused' = FALSE
    /\ gpc' = "idle"
    /\ stopJob' = 0
    /\ cancelIdx' = -1
    /\ pauseCur' = -1
    /\ progress' = [j \in Jobs |-> 0]
    /\ reader' = NoReader
    /\ UNCHANGED << clips, paused, stopped, procVars, npause, fn, process_finished >>

RestartNext == Next \/ StartProcessing

RestartSpec == Init /\ [][RestartNext]_vars

\* ------------------------------------------ calls of the pure functions
VideoStarts == {0, Sec(10), Sec(20)}
VideoDurations == {FSec(-5), 0, FSec(10) - 4, FSec(10), FSec(30)}

\* Catalogs of 1..MaxVideos recordings in any order; path is the position.
Catalogs ==
    UNION { { [k \in 1..n |-> [path |-> k, start |-> f[k][1], duration |-> f[k][2]]] :
                f \in [1..n -> VideoStarts \X VideoDurations] } : n \in 1..MaxVideos }

MatchCalls ==
    { [op |-> "match", videos |-> v, clip_start |-> s, clip_end |-> e,
       out |-> NoVideo, done |-> FALSE] :
          v \in Catalogs, s \in {0, Sec(10), Sec(20), Sec(30)},
          e \in {Sec(10), Sec(20), Sec(30), Sec(40), Sec(90000), Sec(90010)} }

OffsetCalls ==
    { [op |-> "offset", clip_start |-> s, clip_end |-> e,
       offset |-> [start_offset |-> so, end_offset |-> eo, min_duration |-> md],
       out |-> << s, e >>, done |-> FALSE] :
          s \in {Sec(100), Sec(110)}, e \in {Sec(105), Sec(115), Sec(150)},
          so \in {FSec(-5), 0, 4, FSec(5)}, eo \in {FSec(-5), 0, 4, FSec(5)},
          md \in {0, FSec(10), FSec(10) + 4, FSec(30)} }

\* The match of a job followed by the arguments computed for its encoder.
CutCalls ==
    { [op |-> "cut", videos |-> v, clip_start |-> s, clip_end |-> e,
       video |-> NoVideo, seek_time |-> 0, duration |-> 0, done |-> FALSE] :
          v \in Catalogs, s \in {0, Sec(10), Sec(20), Sec(30)},
          e \in {Sec(10), Sec(20), Sec(30), Sec(40)} }

\* Progress queries: the counters of on_task_completed, the progress of the
\* job being cut (in hundredths) and the percentage shown so far.
OverallCalls ==
    { [op |-> "overall", completed_clips |-> c, failed_clips |-> f, total_clips |-> t,
       current_progress |-> p, shown |-> 0,
       out |-> [raised |-> FALSE, overall |-> 0], done |-> FALSE] :
          c \in 0..2, f \in 0..2, t \in 1..3,
          p \in {0, 50, 100} }

BitrateCalls ==
    { [op |-> "bitrate", bitrate |-> b, ratio_tenths |-> r, out |-> 0, done |-> FALSE] :
          b \in 0..MaxBitrate, r \in QualityTenths }

CallInit ==
    /\ clips = [j \in Jobs |-> TaskRange(<< Sec(10), Sec(15) >>)]
    /\ BatchStart
    /\ fn \in MatchCalls \cup OffsetCalls \cup BitrateCalls \cup CutCalls
                \cup { q \in OverallCalls : q.completed_clips + q.failed_clips < q.total_clips }

CallMatch ==
    /\ fn.op = "match" /\ ~fn.done
    /\ fn' = [fn EXCEPT !.out = find_video_for_clip(fn.videos, fn.clip_start, fn.clip_end),
                        !.done = TRUE]
    /\ UNCHANGED << jobVars, launches, cur, wpc, retry_count, result, flagVars,
                    procVars, guiVars, pauseCur, attemptVars >>

CallOffset ==
    /\ fn.op = "offset" /\ ~fn.done
    /\ fn' = [fn EXCEPT !.out = apply_time_offset(fn.clip_start, fn.clip_end, fn.offset),
                        !.done = TRUE]
    /\ UNCHANGED << jobVars, launches, cur, wpc, retry_count, result, flagVars,
                    procVars, guiVars, pauseCur, attemptVars >>

CallBitrate ==
    /\ fn.op = "bitrate" /\ ~fn.done
    /\ fn' = [fn EXCEPT !.out = output_bitrate(fn.bitrate, fn.ratio_tenths),
                        !.done = TRUE]
    /\ UNCHANGED << jobVars, launches, cur, wpc, retry_count, result, flagVars,
                    procVars, guiVars, pauseCur, attemptVars >>

\* gui.py:61-63 and video_processor.py:247-251: the job is matched and, when
\* a recording was found, the seek time and the duration are computed.
CallCut ==
    /\ fn.op = "cut" /\ ~fn.done
    /\ LET v == find_video_for_clip(fn.videos, fn.clip_start, fn.clip_end)
       IN fn' = IF v = NoVideo
                THEN [fn EXCEPT !.done = TRUE]
                ELSE [fn EXCEPT !.video = v,
                                !.seek_time = calculate_seek_time(v, fn.clip_start),
                                !.duration = requested_duration(fn.clip_start, fn.clip_end),
                                !.done = TRUE]
    /\ UNCHANGED << jobVars, launches, cur, wpc, retry_count, result, flagVars,
                    procVars, guiVars, pauseCur, attemptVars >>

CallOverall ==
    /\ fn.op = "overall" /\ ~fn.done
    /\ fn' = [fn EXCEPT !.out = update_progress_display(fn.completed_clips, fn.failed_clips,
                                    fn.total_clips, fn.current_progress, fn.shown),
                        !.done = TRUE]
    /\ UNCHANGED << jobVars, launches, cur, wpc, retry_count, result, flagVars,
                    procVars, guiVars, pauseCur, attemptVars >>

CallNext == CallMatch \/ CallOffset \/ CallBitrate \/ CallCut \/ CallOverall

CallSpec == CallInit /\ [][CallNext]_vars

\* =================================================================== claims
Terminal == {"completed", "failed"}
StalledExhausted == "Process stalled after 3 retries"
StoppedByUser == "Task stopped by user"

\* C1 (as stated): a job that failed as 'stalled after 3 retries' had exactly
\* MAX_RETRIES (3) encoder launches, all of them stalled.
C1_ExactlyMaxRetriesStalls ==
    (cur >= 1 /\ error[IF cur >= 1 THEN cur ELSE 1] = StalledExhausted)
        => (launches = MAX_RETRIES /\ retry_count = MAX_RETRIES)

\* C1 (amended): a job that failed as 'stalled after 3 retries' had exactly
\* MAX_RETRIES + 1 (4) encoder launches, every one of them stalled (the first
\* attempt and MAX_RETRIES retries); it is failed and, while the orchestrator
\* stays at that job, no encoder process is launched or left for it.
C1_StallBound ==
    (cur >= 1 /\ error[IF cur >= 1 THEN cur ELSE 1] = StalledExhausted)
        => /\ launches = MAX_RETRIES + 1
           /\ retry_count = MAX_RETRIES + 1
           /\ status[cur] = "failed"
           /\ process = NoProc
           /\ alive = {}
           /\ wpc \in {"for", "fin", "done"}

C1_Witness ==
    cur >= 1 /\ error[IF cur >= 1 THEN cur ELSE 1] = StalledExhausted /\ wpc = "for"

\* C2: only a Stalled result is retried. A result that is not Stalled ends the
\* job in the same classification step (completed exactly on success), and an
\* encoder is launched again only when every earlier attempt of the job stalled.
C2_OnlyStalledRetried ==
    [][ /\ (wpc = "classify" /\ wpc' # wpc /\ result # "STALLED")
              => /\ wpc' = "for"
                 /\ launches' = launches
                 /\ status'[cur] \in Terminal
                 /\ (result = "OK" <=> status'[cur] = "completed")
        /\ (launches' > launches => retry_count = launches) ]_vars

C2_Witness ==
    cur >= 1 /\ wpc = "for" /\ retry_count >= 1 /\ retry_count <= MAX_RETRIES
    /\ status[IF cur >= 1 THEN cur ELSE 1] = "completed"

\* C3: a job whose live child process was killed by stop() ends failed with
\* the reason 'Task stopped by user'.
C3_StopGivesStoppedReason ==
    \A j \in Jobs :
        (stopJob = j /\ status[j] # "processing")
            => (status[j] = "failed" /\ error[j] = StoppedByUser)

\* C4: once cancel is requested the worker thread eventually ends.
C4_CancelTerminates == stopped ~> WorkerFinished

\* C5: the driver classifies an attempt Stalled only in a step in which the
\* child process has not exited and the silence exceeds the stall threshold.
C5_StalledOnlyIfAliveAndSilent ==
    [][ (result' = "STALLED" /\ result # "STALLED")
            => (process \in alive /\ idle > STALL_TIMEOUT) ]_vars


\* The child process of the running attempt is alive and silent for longer
\* than the stall threshold, and cancel is not set.
SilentTooLong ==
    /\ Polling
    /\ process \in alive
    /\ idle > STALL_TIMEOUT
    /\ ~stopped

\* C6 (as stated): from every driver state with an alive child silent beyond
\* the threshold and cancel not set, the driver eventually kills the child,
\* classifies the attempt Stalled and retries (unless cancel is requested, the
\* child speaks or the child exits by itself meanwhile).
C6_StallKilledAndRetried ==
    SilentTooLong ~> \/ (result = "STALLED" /\ WillRetry(retry_count + 1))
                     \/ stopped
                     \/ (Polling /\ idle <= STALL_TIMEOUT)
                     \/ exitst \in {"zero", "nonzero"}

\* C6 (amended): when every pause is eventually resumed, from every driver
\* state with an alive child silent beyond the threshold and cancel not set,
\* the driver eventually kills the child and classifies the attempt Stalled
\* (unless cancel is requested, the child speaks or the child exits by itself
\* meanwhile); a Stalled attempt is then followed by another pass of the retry
\* loop or, once MAX_RETRIES retries are used up, by the job being failed.
C6_StallKilled ==
    /\ SilentTooLong ~> \/ (result = "STALLED" /\ process = NoProc /\ alive = {})
                        \/ stopped
                        \/ (Polling /\ idle <= STALL_TIMEOUT)
                        \/ exitst \in {"zero", "nonzero"}
    /\ (result = "STALLED")
           ~> \/ (wpc = "loop" /\ retry_count <= MAX_RETRIES)
              \/ (wpc = "for" /\ retry_count = MAX_RETRIES + 1
                  /\ error[IF cur >= 1 THEN cur ELSE 1] = StalledExhausted)

C6_Witness ==
    result = "STALLED" /\ process = NoProc /\ alive = {} /\ exitst = "none"
    /\ retry_count = 0 /\ ~stopped

C8_InputOrder ==
    /\ \A j \in Jobs : (j > 1 /\ status[j] # "pending") => status[j - 1] \in Terminal
    /\ \A j, k \in Jobs : (status[j] = "processing" /\ status[k] = "processing") => j = k

C8_Witness ==
    \E j \in Jobs : j > 1 /\ status[j] = "processing" /\ status[j - 1] = "failed"

\* C9: once cancel is set, no job beyond the last one that had passed the
\* orchestrator's running checks leaves pending, and no completed job changes.
C9_NoDispatchAfterCancel ==
    [][ ~running =>
          \A j \in Jobs :
              /\ (j > cancelIdx => status'[j] = "pending")
              /\ (status[j] = "completed" => status'[j] = "completed") ]_vars

C9_Witness ==
    /\ ~running
    /\ WorkerFinished
    /\ cancelIdx \in 1..(NumJobs - 1)
    /\ status[IF cancelIdx >= 1 THEN cancelIdx ELSE 1] = "failed"
    /\ \E j \in Jobs : j < cancelIdx + 1 /\ error[j] = StoppedByUser

\* C10: without a cancel request, a worker thread that has ended has brought
\* every job to completed or failed.
C10_EveryJobGetsAStatus ==
    (WorkerFinished /\ running) => \A j \in Jobs : status[j] \in Terminal


\* ------------------------------ the matcher's contract, stated declaratively
\* Position order of the sorted catalog: by start, ties in the given order.
SortsBefore(videos, m, k) ==
    \/ videos[m].start < videos[k].start
    \/ (videos[m].start = videos[k].start /\ m < k)

\* The recording that follows recording k in that order, 0 if k is the last.
Successor(videos, k) ==
    LET later == { m \in 1..Len(videos) : SortsBefore(videos, k, m) }
    IN IF later = {} THEN 0
       ELSE CHOOSE m \in later : \A n \in later : n = m \/ SortsBefore(videos, m, n)

\* End of the coverage window of recording k, in tenths of a tick (25 h is
\* 90000 s when the recording is open-ended and the last).
WindowEnd(videos, k) ==
    IF videos[k].duration > 0 THEN 10 * videos[k].start + videos[k].duration
    ELSE IF Successor(videos, k) # 0 THEN 10 * videos[Successor(videos, k)].start
    ELSE 10 * (videos[k].start + Sec(90000))

InWindow(videos, k, s, e) ==
    videos[k].start <= s /\ 10 * e <= WindowEnd(videos, k)

Uncovered(videos, s, e) ==
    \A k \in 1..Len(videos) : ~InWindow(videos, k, s, e)

NotFoundReason == "source video not found"

\* C11: a job whose output directory could not be created ends failed with an
\* error description (and the worker goes on with the batch).
C11_MkdirErrorFailsJob ==
    wpc = "crashed" => (status[cur] = "failed" /\ error[cur] # "none")

\* C12: a job whose range lies in no recording's coverage window is marked
\* failed with the source-not-found reason in the matching step, the loop goes
\* on to the next job, and no encoder is ever launched for such a job.
C12_NotFoundFailsAndContinues ==
    [][ /\ (wpc = "match" /\ wpc' # wpc
               /\ Uncovered(Catalog, clips[cur][1], clips[cur][2]))
              => /\ status'[cur] = "failed"
                 /\ error'[cur] = NotFoundReason
                 /\ wpc' = "for"
                 /\ launches' = 0
                 /\ process' = NoProc
                 /\ alive' = alive
        /\ (launches' > launches
              => ~Uncovered(Catalog, clips[cur][1], clips[cur][2])) ]_vars

C12_Witness ==
    \E j \in Jobs :
        /\ j < NumJobs
        /\ Uncovered(Catalog, clips[j][1], clips[j][2])
        /\ status[j] = "failed"
        /\ error[j] = NotFoundReason
        /\ status[j + 1] = "processing"

\* C13: setting pause kills no encoder and changes no status; while a pause
\* set during an earlier job is in force, the job the loop has moved on to is
\* not matched, not launched and still pending.
C13_PauseHoldsNextJob ==
    [][ /\ (wpaused' /\ ~wpaused)
              => (alive' = alive /\ process' = process /\ status' = status)
        /\ (wpaused' /\ cur' > pauseCur')
              => /\ cur' = pauseCur' + 1
                 /\ status'[cur'] = "pending"
                 /\ video_info'[cur'] = NoVideo
                 /\ launches' = 0 ]_vars

C13_Witness ==
    /\ wpaused
    /\ pauseCur >= 1
    /\ cur = pauseCur + 1
    /\ wpc = "pausew"
    /\ running
    /\ status[IF pauseCur >= 1 THEN pauseCur ELSE 1] = "completed"


Matched == fn.op = "match" /\ fn.done

\* Recording k has a known duration and its own extent contains [s, e).
Contains(videos, k, s, e) ==
    /\ videos[k].duration > 0
    /\ videos[k].start <= s
    /\ 10 * e <= 10 * videos[k].start + videos[k].duration

\* No recording of known duration extends past the start of the next one.
NoOverlap(videos) ==
    \A m \in 1..Len(videos) :
        (videos[m].duration > 0 /\ Successor(videos, m) # 0)
            => 10 * videos[m].start + videos[m].duration
                  <= 10 * videos[Successor(videos, m)].start

\* C14 as stated: whenever a known-duration recording R contains the range,
\* the matcher returns R.
C14_ContainmentReturnsR ==
    Matched =>
        \A k \in 1..Len(fn.videos) :
            Contains(fn.videos, k, fn.clip_start, fn.clip_end)
                => fn.out = fn.videos[k]

\* C14: in a catalog where no recording of known duration extends past the
\* start of the next one, whenever a known-duration recording R contains a
\* non-empty range, the matcher returns R.
C14_Containment ==
    (Matched /\ NoOverlap(fn.videos) /\ fn.clip_start < fn.clip_end) =>
        \A k \in 1..Len(fn.videos) :
            Contains(fn.videos, k, fn.clip_start, fn.clip_end)
                => fn.out = fn.videos[k]

C14_Witness ==
    /\ Matched
    /\ Len(fn.videos) = 2
    /\ NoOverlap(fn.videos)
    /\ fn.clip_start < fn.clip_end
    /\ Contains(fn.videos, 1, fn.clip_start, fn.clip_end)
    /\ SortsBefore(fn.videos, 2, 1)
    /\ fn.out = fn.videos[1]

\* The open-ended recording k is immediately followed by another recording.
OpenEndedFollowed(videos, k) ==
    videos[k].duration <= 0 /\ Successor(videos, k) # 0

\* C15 as stated: an open-ended recording immediately followed by R2 is never
\* returned for a clip whose end is at or after R2's start.
C15_NeverAtOrAfterNextStart ==
    Matched =>
        \A k \in 1..Len(fn.videos) :
            (/\ OpenEndedFollowed(fn.videos, k)
             /\ fn.clip_end >= fn.videos[Successor(fn.videos, k)].start)
                => fn.out # fn.videos[k]

\* C15: an open-ended recording immediately followed by R2 is never returned
\* for a clip whose end is after R2's start.
C15_NeverAfterNextStart ==
    Matched =>
        \A k \in 1..Len(fn.videos) :
            (/\ OpenEndedFollowed(fn.videos, k)
             /\ fn.clip_end > fn.videos[Successor(fn.videos, k)].start)
                => fn.out # fn.videos[k]

C15_Witness ==
    /\ Matched
    /\ \E k \in 1..Len(fn.videos) :
          /\ OpenEndedFollowed(fn.videos, k)
          /\ fn.videos[k].start <= fn.clip_start
          /\ fn.clip_start < fn.clip_end
          /\ fn.clip_end > fn.videos[Successor(fn.videos, k)].start
          /\ fn.out # fn.videos[k]

\* The matcher returns the first recording in ascending start order whose
\* coverage window contains the clip, nothing exactly when there is none, and
\* never a known-duration recording that ends before the clip does.
FirstCoveringRecording ==
    /\ IF Uncovered(fn.videos, fn.clip_start, fn.clip_end)
       THEN fn.out = NoVideo
       ELSE \E k \in 1..Len(fn.videos) :
               /\ fn.out = fn.videos[k]
               /\ InWindow(fn.videos, k, fn.clip_start, fn.clip_end)
               /\ \A m \in 1..Len(fn.videos) :
                     SortsBefore(fn.videos, m, k)
                        => ~InWindow(fn.videos, m, fn.clip_start, fn.clip_end)
    /\ \A k \in 1..Len(fn.videos) :
          (/\ fn.videos[k].duration > 0
           /\ 10 * fn.clip_end > 10 * fn.videos[k].start + fn.videos[k].duration)
             => fn.out # fn.videos[k]

\* The durations of the catalog are whole numbers of ticks.
WholeTickDurations(videos) ==
    \A k \in 1..Len(videos) : videos[k].duration % 10 = 0

C17_MatchedRangeIsAdjusted ==
    wpc = "match" =>
        \E d \in ClipChoices :
            clips[cur] = apply_time_offset(d[1], d[2], DefaultOffset)

Adjusted == fn.op = "offset" /\ fn.done

\* The three settings are whole numbers of ticks.
WholeMicroseconds(offset) ==
    /\ offset.start_offset % 10 = 0
    /\ offset.end_offset % 10 = 0
    /\ offset.min_duration % 10 = 0

\* The returned range lasts at least min_duration, its start is the clip start
\* less start_offset, its end is never before the clip end plus end_offset,
\* and is exactly that when the range so adjusted is long enough.
MinDurationByExtendingEnd ==
    /\ 10 * (fn.out[2] - fn.out[1]) >= fn.offset.min_duration
    /\ 10 * fn.out[1] = 10 * fn.clip_start - fn.offset.start_offset
    /\ 10 * fn.out[2] >= 10 * fn.clip_end + fn.offset.end_offset
    /\ ((10 * fn.clip_end + fn.offset.end_offset)
          - (10 * fn.clip_start - fn.offset.start_offset) >= fn.offset.min_duration)
         => 10 * fn.out[2] = 10 * fn.clip_end + fn.offset.end_offset

\* C18 as stated: for every offset setting the returned range lasts at least
\* min_duration, reached only by extending the end.
C18_MinDurationForEverySetting ==
    Adjusted => MinDurationByExtendingEnd

\* C18: for offset settings that are whole numbers of microseconds the
\* returned range lasts at least min_duration, its start is the clip start
\* less start_offset, and only its end is moved to reach the minimum.
C18_MinDurationByExtendingEnd ==
    (Adjusted /\ WholeMicroseconds(fn.offset)) => MinDurationByExtendingEnd

C18_Witness ==
    /\ Adjusted
    /\ WholeMicroseconds(fn.offset)
    /\ fn.offset.start_offset > 0
    /\ 10 * fn.out[2] > 10 * fn.clip_end + fn.offset.end_offset
    /\ 10 * (fn.out[2] - fn.out[1]) = fn.offset.min_duration

\* C19 as stated: for every offset setting the adjusted end is not before the
\* clip end and the adjusted start is not after the clip start.
C19_Monotone ==
    Adjusted => (fn.out[2] >= fn.clip_end /\ fn.out[1] <= fn.clip_start)

\* C19: when neither start_offset nor end_offset is negative, the adjusted end
\* is not before the clip end and the adjusted start is not after the clip start.
C19_MonotoneForNonNegativeOffsets ==
    (Adjusted /\ fn.offset.start_offset >= 0 /\ fn.offset.end_offset >= 0)
        => (fn.out[2] >= fn.clip_end /\ fn.out[1] <= fn.clip_start)

C19_Witness ==
    /\ Adjusted
    /\ fn.offset.start_offset > 0
    /\ fn.offset.end_offset > 4
    /\ fn.out[1] < fn.clip_start
    /\ fn.out[2] > fn.clip_end

\* C20: the bitrate given to the encoder is an integer nearest to the source
\* bitrate times the quality ratio.
C20_BitrateIsRounded ==
    (fn.op = "bitrate" /\ fn.done)
        => LET diff == 10 * fn.out - fn.bitrate * fn.ratio_tenths
           IN 2 * diff <= 10 /\ 2 * (0 - diff) <= 10


\* C24: an attempt whose child process exited by itself with a non-zero code,
\* with no cancel requested, ends with the diagnostic text or the exit code as
\* its result, and the job is then marked failed with that error, not retried.
C24_NonZeroExitFailsWithDiagnostic ==
    [][ /\ (exitst = "nonzero" /\ ~stopped /\ wpc # "classify" /\ wpc' = "classify")
              => result' \in {"ERR_STDERR", "ERR_EXITCODE"}
        /\ (wpc = "classify" /\ result \in {"ERR_STDERR", "ERR_EXITCODE"} /\ wpc' # wpc)
              => /\ status'[cur] = "failed"
                 /\ error'[cur] = result
                 /\ wpc' = "for" ]_vars

\* C26: no thread other than the driver of the attempt kills a live child
\* process.
C26_OnlyTheDriverKills == stopJob = 0

\* C28: once the cancel flag is set no encoder child process is launched.
C28_NoLaunchAfterCancel ==
    [][ launches' > launches => ~stopped ]_vars

\* C30: stop() never raises.
C30_StopNeverRaises == gpc # "raised"


\* C29: in a batch for which no cancel has been requested no job ends failed
\* as stopped by the user, and the driver's pause flag is set only together
\* with the orchestrator's.
C29_NewBatchRunsNormally ==
    running => /\ \A j \in Jobs : error[j] # StoppedByUser
               /\ (paused => wpaused)


\* The encoder arguments of a job for which a recording was found.
Launched == fn.op = "cut" /\ fn.done /\ fn.video # NoVideo

\* The seek time is not negative and, when the recording's duration is known,
\* the seek time plus the requested duration does not exceed it.
SeekWithinRecording ==
    /\ fn.seek_time >= 0
    /\ fn.video.duration > 0 => fn.seek_time + fn.duration <= fn.video.duration

\* C27 as stated: for every launched job the seek time is not negative and
\* seek time plus duration stays within a recording of known duration.
C27_SeekWithinEveryRecording ==
    Launched => SeekWithinRecording

\* C27: for every launched job whose catalog has durations that are whole
\* microseconds, the seek time is not negative and, when the recording's
\* duration is known, seek time plus requested duration does not exceed it.
C27_SeekWithinRecording ==
    (Launched /\ WholeTickDurations(fn.videos)) => SeekWithinRecording

C27_Witness ==
    /\ Launched
    /\ WholeTickDurations(fn.videos)
    /\ fn.video.duration > 0
    /\ fn.seek_time > 0
    /\ fn.duration > 0
    /\ fn.seek_time + fn.duration = fn.video.duration


\* C25: a progress query raises nothing and shows the percentage that is
\* (jobs finished + the current job's progress) / total jobs, within [0, 100].
C25_OverallProgress ==
    (fn.op = "overall" /\ fn.done) =>
        LET finished == fn.completed_clips + fn.failed_clips
            expected == (finished * 100 + fn.current_progress) \div fn.total_clips
        IN /\ ~fn.out.raised
           /\ fn.out.overall = IF expected > 100 THEN 100 ELSE expected


\* C21: while an attempt is polled, no step lowers the progress of its job.
C21_ProgressNeverDecreases ==
    [][ (Polling /\ launches' = launches /\ cur' = cur)
            => progress'[cur] >= progress[cur] ]_vars

\* C22: the progress of every job lies between 0.0 and 1.0.
C22_ProgressInUnitInterval ==
    \A j \in Jobs : progress[j] >= 0 /\ progress[j] <= 100

\* C23: the progress of every completed job is 1.0.
C23_CompletedHasFullProgress ==
    \A j \in Jobs : status[j] = "completed" => progress[j] = 100

====
